---------------------------- MODULE Spec2Model ----------------------------
(***************************************************************************)
(* Model of Assignment_2_Code.py: read_csv_data (the melt / pivot / prune  *)
(* / unstack pipeline over a World Bank indicator export) and the module-  *)
(* level script that selects from the two returned tables and writes the   *)
(* figures and table.csv.                                                  *)
(*                                                                         *)
(* A DataFrame is a record [index, columns, data]: index and columns are   *)
(* sequences of labels, data[r][c] is the cell at row r, column c.  A cell *)
(* is <<>> when missing (NaN) and <<v>> when it holds v.  A label of a     *)
(* two-level column index is a pair <<outer, inner>>.                      *)
(***************************************************************************)
EXTENDS Integers, Sequences, FiniteSets, TLC

VARIABLES
    file,         \* worldBankData.csv: [exists, lines]
    pc,           \* position in read_csv_data / in the script
    ccDf,         \* read_csv_data's local table
    dfYears,      \* first returned table
    dfCountries,  \* second returned table
    df,           \* the script's long selection (lines 68-76)
    agDf,         \* the script's agricultural land table (lines 99-100)
    written,      \* names of the output files written so far
    exc           \* <<>>, or the uncaught exception [type, line]

vars == <<file, pc, ccDf, dfYears, dfCountries, df, agDf, written, exc>>

-----------------------------------------------------------------------------
(* Bounds of the input files drawn in Init.                                *)

MaxCountries == 5
MaxYears == 4
MaxIndicators == 11
MaxSparse == 5
FirstFileYear == 1960

-----------------------------------------------------------------------------
(* Constants of the program.                                               *)

SkipRows == 4
UnnamedPos == 66
PlotYearFrom == 1990
PlotYearTo == 2019
LineYearTo == 2016
LineYearStep == 5

countries ==
    << "United States", "Greece", "Lower middle income",
       "Pacific island small states", "Dominican Republic" >>

indicators ==
    << "Electricity production from natural gas sources (% of total)",
       "CO2 intensity (kg per kg of oil equivalent energy use)",
       "Annual freshwater withdrawals, total (billion cubic meters)",
       "Population growth (annual %)",
       "Energy use (kg of oil equivalent) per $1,000 GDP (constant 2017 PPP)",
       "Agricultural land (sq. km)",
       "Agricultural land (% of land area)",
       "Foreign direct investment, net inflows (% of GDP)",
       "School enrollment, primary and secondary (gross), gender parity index (GPI)" >>

DroppedColumns == << "Country Code", "Indicator Code", "Unnamed: " \o ToString(UnnamedPos) >>

IdVars == << "Country Name", "Indicator Name" >>

-----------------------------------------------------------------------------
(* Sequences and labels.                                                   *)

Range(s) == { s[k] : k \in 1..Len(s) }

IndexOf(s, x) == CHOOSE k \in 1..Len(s) : s[k] = x

NaN == << >>

NotNa(cell) == Len(cell) > 0

\* range(a, b, step) as a sequence of integers
PyRange(a, b, step) ==
    IF b <= a THEN << >>
    ELSE [ k \in 1..(((b - a - 1) \div step) + 1) |-> a + (k - 1) * step ]

\* str(i) for each i of a range
StrRange(a, b, step) ==
    LET r == PyRange(a, b, step) IN [ k \in 1..Len(r) |-> ToString(r[k]) ]

\* Country and indicator names an input file may hold, in file order: the
\* script's own, then others.
CountryNames == countries \o << "Aruba", "Zimbabwe" >>

IndicatorNames ==
    indicators \o << "Urban population", "Forest area (sq. km)",
                     "Arable land (% of land area)", "Cereal yield (kg per hectare)" >>

\* Every string label of the model in Python's str order (code point order):
\* four-digit year labels first, then the names.
AscendingNames ==
    << "Agricultural land (% of land area)",
       "Agricultural land (sq. km)",
       "Annual freshwater withdrawals, total (billion cubic meters)",
       "Arable land (% of land area)",
       "Aruba",
       "CO2 intensity (kg per kg of oil equivalent energy use)",
       "Cereal yield (kg per hectare)",
       "Country Code",
       "Country Name",
       "Dominican Republic",
       "Electricity production from natural gas sources (% of total)",
       "Energy use (kg of oil equivalent) per $1,000 GDP (constant 2017 PPP)",
       "Foreign direct investment, net inflows (% of GDP)",
       "Forest area (sq. km)",
       "Greece",
       "Indicator Code",
       "Indicator Name",
       "Lower middle income",
       "Pacific island small states",
       "Population growth (annual %)",
       "School enrollment, primary and secondary (gross), gender parity index (GPI)",
       "United States",
       "Unnamed: " \o ToString(UnnamedPos - 1),
       "Unnamed: " \o ToString(UnnamedPos),
       "Urban population",
       "Value",
       "Year",
       "Zimbabwe" >>

FileYearCount == UnnamedPos - SkipRows

AscendingLabels ==
    StrRange(FirstFileYear - 1, FirstFileYear + FileYearCount + 1, 1) \o AscendingNames

StrRank == [ s \in Range(AscendingLabels) |-> IndexOf(AscendingLabels, s) ]

\* sorted(S) for a set of str labels
SortedStrs(S) == SelectSeq(AscendingLabels, LAMBDA s : s \in S)

\* sorted(S) for a set of pairs of str labels
SortedPairs(S) ==
    LET A == SortedStrs({ p[1] : p \in S })
        B == SortedStrs({ p[2] : p \in S })
        all == [ k \in 1..(Len(A) * Len(B)) |->
                   << A[((k - 1) \div Len(B)) + 1], B[((k - 1) % Len(B)) + 1] >> ]
    IN  SelectSeq(all, LAMBDA p : p \in S)

RECURSIVE SumOf(_, _)
SumOf(f, S) ==
    IF S = {} THEN 0
    ELSE LET x == CHOOSE y \in S : TRUE IN f[x] + SumOf(f, S \ {x})

-----------------------------------------------------------------------------
(* DataFrames.                                                             *)

EmptyFrame == [ index |-> << >>, columns |-> << >>, data |-> << >> ]

\* RangeIndex(n): 0 .. n-1
RangeIndex(n) == [ k \in 1..n |-> k - 1 ]

\* frame.shape
Shape(frame) == << Len(frame.index), Len(frame.columns) >>

\* position of a column label
ColPos(frame, label) == IndexOf(frame.columns, label)

\* MissingLabels with every label taken as held: no lookup raises
MissingLabels_None(axis, labels) == {}

\* labels asked for that an axis does not hold (what raises KeyError)
MissingLabels(axis, labels) == Range(labels) \ Range(axis)

\* RowCount over the indicator columns only
RowCount_IndicatorsOnly(frame, r) ==
    Cardinality({ c \in 1..Len(frame.columns) :
                    /\ frame.columns[c] \notin { "Country Name", "Year" }
                    /\ NotNa(frame.data[r][c]) })

\* number of non-missing cells of column c / of row r
ColCount(frame, c) == Cardinality({ r \in 1..Len(frame.index) : NotNa(frame.data[r][c]) })

RowCount(frame, r) == Cardinality({ c \in 1..Len(frame.columns) : NotNa(frame.data[r][c]) })

\* the frame restricted to the rows / columns at the given positions, in order
TakeRows(frame, rows) ==
    [ index   |-> [ k \in 1..Len(rows) |-> frame.index[rows[k]] ],
      columns |-> frame.columns,
      data    |-> [ k \in 1..Len(rows) |-> frame.data[rows[k]] ] ]

TakeCols(frame, cols) ==
    [ index   |-> frame.index,
      columns |-> [ k \in 1..Len(cols) |-> frame.columns[cols[k]] ],
      data    |-> [ r \in 1..Len(frame.index) |->
                      [ k \in 1..Len(cols) |-> frame.data[r][cols[k]] ] ] ]

Positions(n) == [ k \in 1..n |-> k ]

\* pd.read_csv(filename, skiprows=n): the line after the skipped ones is the
\* header, an empty header field is named by its 0-based position, an empty
\* data field is NaN.
ReadCsv(f, skiprows) ==
    LET header == f.lines[skiprows + 1]
        n == Len(f.lines) - skiprows - 1
    IN  [ index   |-> RangeIndex(n),
          columns |-> [ k \in 1..Len(header) |->
                          IF header[k] = "" THEN "Unnamed: " \o ToString(k - 1)
                          ELSE header[k] ],
          data    |-> [ r \in 1..n |-> f.lines[skiprows + 1 + r] ] ]

\* DropColumns that drops nothing
DropColumns_Nothing(frame, labels) == frame

\* frame.drop(columns=labels)
DropColumns(frame, labels) ==
    TakeCols(frame, SelectSeq(Positions(Len(frame.columns)),
                              LAMBDA c : frame.columns[c] \notin Range(labels)))

\* frame.melt(id_vars, var_name, value_name): one row per (value column, row),
\* value columns outermost in column order.
Melt(frame, id_vars, var_name, value_name) ==
    LET n  == Len(frame.index)
        vp == SelectSeq(Positions(Len(frame.columns)),
                        LAMBDA c : frame.columns[c] \notin Range(id_vars))
        ip == SelectSeq([ k \in 1..Len(id_vars) |-> ColPos(frame, id_vars[k]) ],
                        LAMBDA c : TRUE)
    IN  [ index   |-> RangeIndex(n * Len(vp)),
          columns |-> id_vars \o << var_name, value_name >>,
          data    |-> [ k \in 1..(n * Len(vp)) |->
                          LET v == vp[((k - 1) \div n) + 1]
                              r == ((k - 1) % n) + 1
                          IN  [ j \in 1..Len(ip) |-> frame.data[r][ip[j]] ]
                              \o << << frame.columns[v] >>, frame.data[r][v] >> ] ]

\* the mean of the values at the rows of a group
Mean(vals, group) == SumOf(vals, group) \div Cardinality(group)

\* frame.pivot_table(values, columns, index=[i1, i2]) with the defaults
\* aggfunc='mean', dropna=True: the rows are grouped by (i1, i2, columns), a
\* group with no value is dropped before the unstack, rows and columns come
\* out sorted, the index stays (i1, i2).
PivotTable(frame, values, columns, index) ==
    LET vc == ColPos(frame, values)
        cc == ColPos(frame, columns)
        i1 == ColPos(frame, index[1])
        i2 == ColPos(frame, index[2])
        present == { k \in 1..Len(frame.index) : NotNa(frame.data[k][vc]) }
        vals == [ k \in present |-> frame.data[k][vc][1] ]
        rows == SortedPairs({ << frame.data[k][i1][1], frame.data[k][i2][1] >> : k \in present })
        cols == SortedStrs({ frame.data[k][cc][1] : k \in present })
    IN  [ index   |-> rows,
          columns |-> cols,
          data    |-> [ r \in 1..Len(rows) |->
                          LET at == { k \in present : /\ frame.data[k][i1][1] = rows[r][1]
                                                      /\ frame.data[k][i2][1] = rows[r][2] }
                          IN  [ c \in 1..Len(cols) |->
                                  LET group == { k \in at : frame.data[k][cc][1] = cols[c] }
                                  IN  IF group = {} THEN NaN ELSE << Mean(vals, group) >> ] ] ]

\* frame.reset_index() of a frame indexed by pairs named names
ResetIndex(frame, names) ==
    [ index   |-> RangeIndex(Len(frame.index)),
      columns |-> names \o frame.columns,
      data    |-> [ r \in 1..Len(frame.index) |->
                      [ j \in 1..Len(names) |-> << frame.index[r][j] >> ] \o frame.data[r] ] ]

\* QuarterOf rounding up instead of down
QuarterOf_Ceil(n) == ((25 * n) + 99) \div 100

\* int(0.25 * n)
QuarterOf(n) == (25 * n) \div 100

\* frame.dropna(thresh=t, axis=1): keep the columns with at least t non-missing cells
DropnaColumns(frame, thresh) ==
    TakeCols(frame, SelectSeq(Positions(Len(frame.columns)),
                              LAMBDA c : ColCount(frame, c) >= thresh))

\* frame.dropna(thresh=t): keep the rows with at least t non-missing cells
DropnaRows(frame, thresh) ==
    TakeRows(frame, SelectSeq(Positions(Len(frame.index)),
                              LAMBDA r : RowCount(frame, r) >= thresh))

\* frame.set_index([k1, k2])
SetIndex(frame, keys) ==
    LET k1 == ColPos(frame, keys[1])
        k2 == ColPos(frame, keys[2])
        rest == SelectSeq(Positions(Len(frame.columns)),
                          LAMBDA c : frame.columns[c] \notin Range(keys))
        t == TakeCols(frame, rest)
    IN  [ t EXCEPT !.index = [ r \in 1..Len(frame.index) |->
                                 << frame.data[r][k1][1], frame.data[r][k2][1] >> ] ]

\* frame.unstack(level) of a frame indexed by pairs; level is 0 or 1.  The
\* unstacked level becomes the inner column level; a (row, column) pair the
\* frame has no row for is NaN.
Unstack(frame, level) ==
    LET lv == level + 1
        ot == 3 - lv
        rows == SortedStrs({ t[ot] : t \in Range(frame.index) })
        inner == SortedStrs({ t[lv] : t \in Range(frame.index) })
        nc == Len(frame.columns)
        ni == Len(inner)
        Key(a, b) == IF lv = 1 THEN << b, a >> ELSE << a, b >>
        at == [ t \in Range(frame.index) |-> IndexOf(frame.index, t) ]
    IN  [ index   |-> rows,
          columns |-> [ k \in 1..(nc * ni) |->
                          << frame.columns[((k - 1) \div ni) + 1], inner[((k - 1) % ni) + 1] >> ],
          data    |-> [ r \in 1..Len(rows) |-> [ k \in 1..(nc * ni) |->
                          LET key == Key(rows[r], inner[((k - 1) % ni) + 1])
                          IN  IF key \in DOMAIN at
                              THEN frame.data[at[key]][((k - 1) \div ni) + 1]
                              ELSE NaN ] ] ]

\* frame.swaplevel(axis=1)
SwapLevel(frame) ==
    [ frame EXCEPT !.columns = [ k \in 1..Len(frame.columns) |->
                                   << frame.columns[k][2], frame.columns[k][1] >> ] ]

\* SortIndexColumns leaving the columns as they are
SortIndexColumns_Unsorted(frame) == frame

\* frame.sort_index(axis=1, level=0): columns ascending by the outer label,
\* then (sort_remaining) by the inner one
SortIndexColumns(frame) ==
    LET sorted == SortedPairs(Range(frame.columns))
        at == [ c \in Range(frame.columns) |-> IndexOf(frame.columns, c) ]
    IN  TakeCols(frame, [ k \in 1..Len(sorted) |-> at[sorted[k]] ])

-----------------------------------------------------------------------------
(* read_csv_data.                                                          *)

\* lines 32-35: the table melted, then pivoted to one row per (country, year)
\* and one column per indicator
Melted(frame) == Melt(frame, IdVars, "Year", "Value")

Pivoted(frame) ==
    ResetIndex(PivotTable(frame, "Value", "Indicator Name", << "Country Name", "Year" >>),
               << "Country Name", "Year" >>)

\* PruneColumns with the threshold taken from shape[1]
PruneColumns_ByColumnCount(frame) == DropnaColumns(frame, QuarterOf(Shape(frame)[2]))

\* line 38: the threshold is a quarter of shape[0], the axis is the columns
PruneColumns(frame) == DropnaColumns(frame, QuarterOf(Shape(frame)[1]))

\* PruneRows with the threshold taken from shape[0]
PruneRows_ByRowCount(frame) == DropnaRows(frame, QuarterOf(Shape(frame)[1]))

\* line 39: the threshold is a quarter of shape[1], the axis is the rows
PruneRows(frame) == DropnaRows(frame, QuarterOf(Shape(frame)[2]))

\* lines 42-43
YearsAsColumns(frame) ==
    SortIndexColumns(SwapLevel(Unstack(SetIndex(frame, << "Year", "Country Name" >>), 0)))

\* CountriesAsColumns unstacking level 0, as lines 42-43 do
CountriesAsColumns_Level0(frame) ==
    SortIndexColumns(SwapLevel(Unstack(SetIndex(frame, << "Year", "Country Name" >>), 0)))

\* CountriesAsColumns without the swaplevel
CountriesAsColumns_NoSwap(frame) ==
    SortIndexColumns(Unstack(SetIndex(frame, << "Year", "Country Name" >>), 1))

\* lines 46-47
CountriesAsColumns(frame) ==
    SortIndexColumns(SwapLevel(Unstack(SetIndex(frame, << "Year", "Country Name" >>), 1)))

-----------------------------------------------------------------------------
(* Input files.                                                            *)

CountryCodes == << "USA", "GRC", "LMC", "PSS", "DOM", "ABW", "ZWE" >>

IndicatorCodes ==
    << "EG.ELC.NGAS.ZS", "EN.ATM.CO2E.EG.ZS", "ER.H2O.FWTL.K3", "SP.POP.GROW",
       "EG.USE.COMM.GD.PP.KD", "AG.LND.AGRI.K2", "AG.LND.AGRI.ZS",
       "BX.KLT.DINV.WD.GD.ZS", "SE.ENR.PRSC.FM.ZS", "SP.URB.TOTL",
       "AG.LND.FRST.K2", "AG.LND.ARBL.ZS", "AG.YLD.CREL.KG" >>

MetaLines ==
    << << "Data Source", "World Development Indicators" >>, << >>,
       << "Last Updated Date", "2023-03-01" >>, << >> >>

\* A World Bank export: four metadata lines, the header, then one line per
\* (country, indicator) with one field per year and an empty last field.
\* It holds nc countries, ni indicators and nyc year columns from
\* FirstFileYear on, with data in the ny years from PlotYearFrom on.  The (country,
\* year) pairs with data are numbered country by country: the last
\* indicator has values in the first `sparse` pairs only, the others in all
\* pairs, or with `gap` in all pairs but the first.
WorldBankFile(nc, ny, ni, sparse, gap, nyc) ==
    LET header == << "Country Name", "Country Code", "Indicator Name", "Indicator Code" >>
                  \o StrRange(FirstFileYear, FirstFileYear + nyc, 1) \o << "" >>
        Field(c, i, j) ==
            LET year == FirstFileYear + j - 1
                d == year - PlotYearFrom + 1
                p == (c - 1) * ny + d
                v == ((c * 100 + i) * 100) + (year % 100)
            IN  IF d < 1 \/ d > ny THEN NaN
                ELSE IF i = ni THEN (IF p <= sparse THEN << v >> ELSE NaN)
                ELSE IF p > 1 \/ ~gap THEN << v >>
                ELSE NaN
        Line(c, i) ==
            << << CountryNames[c] >>, << CountryCodes[c] >>,
               << IndicatorNames[i] >>, << IndicatorCodes[i] >> >>
            \o [ j \in 1..nyc |-> Field(c, i, j) ] \o << NaN >>
    IN  [ exists |-> TRUE,
          lines  |-> MetaLines \o << header >>
                     \o [ k \in 1..(nc * ni) |-> Line(((k - 1) \div ni) + 1, ((k - 1) % ni) + 1) ] ]

NoFile == [ exists |-> FALSE, lines |-> << >> ]

\* the files Spec starts from: every small export with at least one value,
\* one with a year column too few, and no file at all
SmallFiles ==
    { WorldBankFile(nc, ny, ni, sparse, gap, FileYearCount) :
        nc \in 1..MaxCountries, ny \in 1..MaxYears, ni \in 1..MaxIndicators,
        sparse \in 0..MaxSparse, gap \in BOOLEAN }

HasValue(f) ==
    \E r \in (SkipRows + 2)..Len(f.lines) :
        \E j \in 5..(Len(f.lines[r]) - 1) : NotNa(f.lines[r][j])

Files ==
    { f \in SmallFiles : HasValue(f) }
    \cup { WorldBankFile(1, 1, 2, 1, FALSE, FileYearCount - 1), NoFile }

-----------------------------------------------------------------------------
(* read_csv_data, statement by statement.                                  *)

Init ==
    /\ file \in Files
    /\ pc = "read_csv"
    /\ ccDf = EmptyFrame
    /\ dfYears = EmptyFrame
    /\ dfCountries = EmptyFrame
    /\ df = EmptyFrame
    /\ agDf = EmptyFrame
    /\ written = {}
    /\ exc = << >>

Raise(e) ==
    /\ pc' = "raised"
    /\ exc' = e

\* line 26
ReadCsvStep ==
    /\ pc = "read_csv"
    /\ IF ~file.exists
       THEN Raise([ type |-> "FileNotFoundError", line |-> 26 ]) /\ UNCHANGED ccDf
       ELSE ccDf' = ReadCsv(file, SkipRows) /\ pc' = "drop" /\ UNCHANGED exc
    /\ UNCHANGED << file, dfYears, dfCountries, df, agDf, written >>

\* line 29
DropStep ==
    /\ pc = "drop"
    /\ IF MissingLabels(ccDf.columns, DroppedColumns) # {}
       THEN Raise([ type |-> "KeyError", line |-> 29 ]) /\ UNCHANGED ccDf
       ELSE ccDf' = DropColumns(ccDf, DroppedColumns) /\ pc' = "melt" /\ UNCHANGED exc
    /\ UNCHANGED << file, dfYears, dfCountries, df, agDf, written >>

\* lines 32-33
MeltStep ==
    /\ pc = "melt"
    /\ ccDf' = Melted(ccDf)
    /\ pc' = "pivot_table"
    /\ UNCHANGED << file, dfYears, dfCountries, df, agDf, written, exc >>

\* lines 34-35
PivotStep ==
    /\ pc = "pivot_table"
    /\ ccDf' = Pivoted(ccDf)
    /\ pc' = "dropna_columns"
    /\ UNCHANGED << file, dfYears, dfCountries, df, agDf, written, exc >>

\* line 38
PruneColumnsStep ==
    /\ pc = "dropna_columns"
    /\ ccDf' = PruneColumns(ccDf)
    /\ pc' = "dropna_rows"
    /\ UNCHANGED << file, dfYears, dfCountries, df, agDf, written, exc >>

\* line 39
PruneRowsStep ==
    /\ pc = "dropna_rows"
    /\ ccDf' = PruneRows(ccDf)
    /\ pc' = "set_years"
    /\ UNCHANGED << file, dfYears, dfCountries, df, agDf, written, exc >>

\* lines 42-43
YearsStep ==
    /\ pc = "set_years"
    /\ dfYears' = YearsAsColumns(ccDf)
    /\ pc' = "set_countries"
    /\ UNCHANGED << file, ccDf, dfCountries, df, agDf, written, exc >>

\* lines 46-47
CountriesStep ==
    /\ pc = "set_countries"
    /\ dfCountries' = CountriesAsColumns(ccDf)
    /\ pc' = "return"
    /\ UNCHANGED << file, ccDf, dfYears, df, agDf, written, exc >>

\* line 49, back to line 52: the local table is gone, the script goes on
ReturnStep ==
    /\ pc = "return"
    /\ pc' = "line68"
    /\ ccDf' = EmptyFrame
    /\ UNCHANGED << file, dfYears, dfCountries, df, agDf, written, exc >>

Next ==
    \/ ReadCsvStep
    \/ DropStep
    \/ MeltStep
    \/ PivotStep
    \/ PruneColumnsStep
    \/ PruneRowsStep
    \/ YearsStep
    \/ CountriesStep
    \/ ReturnStep

Spec == Init /\ [][Next]_vars

-----------------------------------------------------------------------------
(* The script, lines 52-118.                                               *)

\* frame[[l1, l2, ...]] by outer column label: for each label asked for, in
\* the order asked for, the columns under it
SelectOuter(frame, labels) ==
    LET n == Len(frame.columns)
        hits == SelectSeq([ k \in 1..(Len(labels) * n) |->
                              << ((k - 1) \div n) + 1, ((k - 1) % n) + 1 >> ],
                          LAMBDA h : frame.columns[h[2]][1] = labels[h[1]])
    IN  TakeCols(frame, [ k \in 1..Len(hits) |-> hits[k][2] ])

\* frame[[c1, c2, ...]] by column label, in the order asked for
SelectColumns(frame, labels) ==
    TakeCols(frame, [ k \in 1..Len(labels) |-> ColPos(frame, labels[k]) ])

\* frame.loc[[r1, r2, ...]]: the rows of the labels, in the order asked for
Loc(frame, labels) ==
    TakeRows(frame, [ k \in 1..Len(labels) |-> IndexOf(frame.index, labels[k]) ])

\* frame.unstack().unstack(level=1) of a frame with (outer, inner) columns:
\* one row per (outer, row label), one column per inner label, both sorted
UnstackTwice(frame) ==
    LET rows == SortedPairs({ << c[1], r >> : c \in Range(frame.columns), r \in Range(frame.index) })
        cols == SortedStrs({ c[2] : c \in Range(frame.columns) })
    IN  [ index   |-> rows,
          columns |-> cols,
          data    |-> [ r \in 1..Len(rows) |-> [ c \in 1..Len(cols) |->
                          frame.data[IndexOf(frame.index, rows[r][2])]
                                    [ColPos(frame, << rows[r][1], cols[c] >>)] ] ] ]

\* frame[frame[column].isin(labels)]
WhereIsin(frame, column, labels) ==
    TakeRows(frame, SelectSeq(Positions(Len(frame.index)),
                              LAMBDA r : /\ NotNa(frame.data[r][ColPos(frame, column)])
                                         /\ frame.data[r][ColPos(frame, column)][1] \in Range(labels)))

\* frame.reset_index(drop=True)
ResetIndexDrop(frame) == [ frame EXCEPT !.index = RangeIndex(Len(frame.index)) ]

\* pd.cut of one cell: the label of the bin (bins[k], bins[k+1]] that holds
\* the value, NaN for a missing value or one outside every bin
Cut(cell, bins, labels) ==
    IF ~NotNa(cell) THEN NaN
    ELSE LET hit == { k \in 1..Len(labels) : bins[k] < cell[1] /\ cell[1] <= bins[k + 1] }
         IN  IF hit = {} THEN NaN ELSE << labels[CHOOSE k \in hit : TRUE] >>

\* frame[name] = pd.cut(frame[column], bins, labels)
WithCut(frame, name, column, bins, labels) ==
    [ index   |-> frame.index,
      columns |-> Append(frame.columns, name),
      data    |-> [ r \in 1..Len(frame.index) |->
                      Append(frame.data[r], Cut(frame.data[r][ColPos(frame, column)], bins, labels)) ] ]

\* frame.columns.droplevel(1)
DropInnerLevel(frame) ==
    [ frame EXCEPT !.columns = [ k \in 1..Len(frame.columns) |-> frame.columns[k][1] ] ]

\* frame[outer]: the columns under one outer label, labelled by the inner one
UnderOuter(frame, outer) ==
    DropInnerLevel(SwapLevel(SelectOuter(frame, << outer >>)))

PlotYears == StrRange(PlotYearFrom, PlotYearTo, 1)

LineYears == StrRange(PlotYearFrom, LineYearTo, LineYearStep)

AgCol == "Agricultural land (% of land area)"

AgColumns == << << "1995", AgCol >>, << "2005", AgCol >>, << "2015", AgCol >> >>

\* the outer labels of a frame's columns
Outer(frame) == { c[1] : c \in Range(frame.columns) }

\* lines 68-69
BuildDfStep ==
    /\ pc = "line68"
    /\ IF MissingLabels(SortedStrs(Outer(dfYears)), PlotYears) # {}
       THEN Raise([ type |-> "KeyError", line |-> 68 ]) /\ UNCHANGED df
       ELSE /\ df' = ResetIndex(UnstackTwice(SelectOuter(dfYears, PlotYears)),
                                << "Year", "Country Name" >>)
            /\ pc' = "line70"
            /\ UNCHANGED exc
    /\ UNCHANGED << file, ccDf, dfYears, dfCountries, agDf, written >>

\* lines 70-71
FilterDfStep ==
    /\ pc = "line70"
    /\ IF MissingLabels(df.columns, indicators \o << "Country Name", "Year" >>) # {}
       THEN Raise([ type |-> "KeyError", line |-> 70 ]) /\ UNCHANGED df
       ELSE /\ df' = ResetIndexDrop(SelectColumns(WhereIsin(df, "Country Name", countries),
                                                  indicators \o << "Country Name", "Year" >>))
            /\ pc' = "line75"
            /\ UNCHANGED exc
    /\ UNCHANGED << file, ccDf, dfYears, dfCountries, agDf, written >>

\* lines 75-76
CutStep ==
    /\ pc = "line75"
    /\ df' = WithCut(df, "Electricity NG Categories", indicators[1],
                     << 0, 25, 50, 75, 100 >>, << "Very Low", "Low", "Medium", "High" >>)
    /\ pc' = "line79"
    /\ UNCHANGED << file, ccDf, dfYears, dfCountries, agDf, written, exc >>

\* plt.savefig(name)
SaveFig(name) == written' = written \cup { name }

\* lines 79-81
EngStep ==
    /\ pc = "line79"
    /\ SaveFig("eng.png")
    /\ pc' = "line84"
    /\ UNCHANGED << file, ccDf, dfYears, dfCountries, df, agDf, exc >>

\* lines 84-86
CrosstabStep ==
    /\ pc = "line84"
    /\ SaveFig("ct.png")
    /\ pc' = "line89"
    /\ UNCHANGED << file, ccDf, dfYears, dfCountries, df, agDf, exc >>

\* lines 89-91
Co2Step ==
    /\ pc = "line89"
    /\ SaveFig("co2.png")
    /\ pc' = "line94"
    /\ UNCHANGED << file, ccDf, dfYears, dfCountries, df, agDf, exc >>

\* lines 94-95: a line plot that is not saved
EnergyStep ==
    /\ pc = "line94"
    /\ pc' = "line98"
    /\ UNCHANGED << file, ccDf, dfYears, dfCountries, df, agDf, written, exc >>

\* lines 98-101
TableStep ==
    /\ pc = "line98"
    /\ IF \/ MissingLabels(dfYears.columns, AgColumns) # {}
          \/ MissingLabels(dfYears.index, countries) # {}
       THEN Raise([ type |-> "KeyError", line |-> 99 ]) /\ UNCHANGED << agDf, written >>
       ELSE /\ agDf' = DropInnerLevel(Loc(SelectColumns(dfYears, AgColumns), countries))
            /\ written' = written \cup { "table.csv" }
            /\ pc' = "line104"
            /\ UNCHANGED exc
    /\ UNCHANGED << file, ccDf, dfYears, dfCountries, df >>

\* lines 104-107
AgLandStep ==
    /\ pc = "line104"
    /\ IF \/ MissingLabels(SortedStrs(Outer(dfYears)), LineYears) # {}
          \/ MissingLabels(dfYears.index, countries) # {}
       THEN Raise([ type |-> "KeyError", line |-> 105 ]) /\ UNCHANGED written
       ELSE SaveFig("al.png") /\ pc' = "line110" /\ UNCHANGED exc
    /\ UNCHANGED << file, ccDf, dfYears, dfCountries, df, agDf >>

\* dfCountries[country][indicators] raises KeyError
HeatmapRaises(country) ==
    \/ country \notin Outer(dfCountries)
    \/ MissingLabels(UnderOuter(dfCountries, country).columns, indicators) # {}

\* lines 110-112
GreeceStep ==
    /\ pc = "line110"
    /\ IF HeatmapRaises("Greece")
       THEN Raise([ type |-> "KeyError", line |-> 110 ]) /\ UNCHANGED written
       ELSE SaveFig("corrGreece.png") /\ pc' = "line115" /\ UNCHANGED exc
    /\ UNCHANGED << file, ccDf, dfYears, dfCountries, df, agDf >>

\* lines 115-118
DominicanStep ==
    /\ pc = "line115"
    /\ IF HeatmapRaises("Dominican Republic")
       THEN Raise([ type |-> "KeyError", line |-> 115 ]) /\ UNCHANGED written
       ELSE SaveFig("corrDR.png") /\ pc' = "done" /\ UNCHANGED exc
    /\ UNCHANGED << file, ccDf, dfYears, dfCountries, df, agDf >>

\* the files ScriptSpec starts from: exports that do or do not hold every
\* country, year and indicator the script asks for, one with a year column
\* too few, and no file at all
ScriptFiles ==
    { WorldBankFile(nc, ny, ni, sparse, gap, FileYearCount) :
        nc \in (Len(countries) - 1)..MaxCountries,
        ny \in (Len(PlotYears) - 1)..Len(PlotYears),
        ni \in Len(indicators)..(Len(indicators) + 1),
        sparse \in { 0, MaxSparse }, gap \in BOOLEAN }
    \cup { WorldBankFile(1, 1, 2, 1, FALSE, FileYearCount - 1), NoFile }

ScriptInit ==
    /\ file \in ScriptFiles
    /\ pc = "read_csv"
    /\ ccDf = EmptyFrame
    /\ dfYears = EmptyFrame
    /\ dfCountries = EmptyFrame
    /\ df = EmptyFrame
    /\ agDf = EmptyFrame
    /\ written = {}
    /\ exc = << >>

ScriptNext ==
    \/ ReadCsvStep
    \/ DropStep
    \/ MeltStep
    \/ PivotStep
    \/ PruneColumnsStep
    \/ PruneRowsStep
    \/ YearsStep
    \/ CountriesStep
    \/ ReturnStep
    \/ BuildDfStep
    \/ FilterDfStep
    \/ CutStep
    \/ EngStep
    \/ CrosstabStep
    \/ Co2Step
    \/ EnergyStep
    \/ TableStep
    \/ AgLandStep
    \/ GreeceStep
    \/ DominicanStep

ScriptSpec == ScriptInit /\ [][ScriptNext]_vars

-----------------------------------------------------------------------------
(* What the input file holds, read off its lines.                          *)

Header == file.lines[SkipRows + 1]

\* the (country, year, indicator) triples the file has a value for
FileTriples ==
    UNION { { << file.lines[r][1][1], Header[j], file.lines[r][3][1] >> :
                j \in { j \in 5..(Len(file.lines[r]) - 1) : NotNa(file.lines[r][j]) } } :
            r \in (SkipRows + 2)..Len(file.lines) }

\* the file has the layout read_csv_data expects: the two code columns, and
\* an unnamed last column at 0-based position UnnamedPos
ValidFile ==
    /\ file.exists
    /\ { "Country Code", "Indicator Code" } \subseteq Range(Header)
    /\ Len(Header) = UnnamedPos + 1
    /\ Header[Len(Header)] = ""

PairsOf(T) == { << t[1], t[2] >> : t \in T }

IndicatorsOf(T) == { t[3] : t \in T }

\* the number of (country, year) rows indicator i has a value in
CountOf(T, i) == Cardinality({ t \in T : t[3] = i })

\* the number of indicators of K that (country, year) pair p has a value for
FilledOf(T, p, K) == Cardinality({ t \in T : t[1] = p[1] /\ t[2] = p[2] /\ t[3] \in K })

\* the (country, year) pairs of the rows of the pivoted table ccDf
RowKeys(frame) == { << frame.data[r][1][1], frame.data[r][2][1] >> : r \in 1..Len(frame.index) }

\* the indicator columns of the pivoted table ccDf
IndicatorColumns(frame) == Range(frame.columns) \ { "Country Name", "Year" }

\* the inner labels of a frame's columns
Inner(frame) == { c[2] : c \in Range(frame.columns) }

\* the cell at a row label and a column label
CellAt(frame, row, col) == frame.data[IndexOf(frame.index, row)][ColPos(frame, col)]

Returned == pc = "line68"

-----------------------------------------------------------------------------
(* C1: the two returned tables agree cell for cell: for every country row  *)
(* c of dfYears, every year row y of dfCountries and every surviving       *)
(* indicator i, dfYears has a column (y, i), dfCountries has a column for  *)
(* c and i, and the two cells hold the same value or are both missing.     *)
C1_ViewsAgree ==
    Returned =>
        \A c \in Range(dfYears.index), y \in Range(dfCountries.index), i \in Inner(dfYears) :
            /\ << y, i >> \in Range(dfYears.columns)
            /\ << c, i >> \in Range(dfCountries.columns)
            /\ CellAt(dfYears, c, << y, i >>) = CellAt(dfCountries, y, << c, i >>)

\* both tables have two rows or more, and hold a value and a missing cell
C1_Witness ==
    /\ Returned
    /\ Len(dfYears.index) >= 2
    /\ Len(dfCountries.index) >= 2
    /\ \E c \in Range(dfYears.index), k \in 1..Len(dfYears.columns) :
           NotNa(CellAt(dfYears, c, dfYears.columns[k]))
    /\ \E c \in Range(dfYears.index), k \in 1..Len(dfYears.columns) :
           ~NotNa(CellAt(dfYears, c, dfYears.columns[k]))

-----------------------------------------------------------------------------
(* C2, as claimed: when the pivoted table has 5 rows or more, an indicator *)
(* with values in exactly 20% of the rows is in neither returned table,    *)
(* and one with values in exactly 25% of the rows is in both.              *)
C2_AsClaimed ==
    Returned =>
        LET T == FileTriples
            R == Cardinality(PairsOf(T))
        IN  R >= 5 =>
              \A i \in IndicatorsOf(T) :
                  /\ 5 * CountOf(T, i) = R => i \notin Inner(dfYears) \cup Inner(dfCountries)
                  /\ 4 * CountOf(T, i) = R => i \in Inner(dfYears) \cap Inner(dfCountries)

(* C2, amended: an indicator with values in exactly 20% of the rows is in  *)
(* neither returned table when the pivoted table has 20 rows or more, and  *)
(* is in both when it has 5, 10 or 15 rows (20% of the rows is then not    *)
(* below floor(0.25 * rows)); one with values in exactly 25% of the rows   *)
(* is in both.                                                             *)
C2_Amended ==
    Returned =>
        LET T == FileTriples
            R == Cardinality(PairsOf(T))
        IN  \A i \in IndicatorsOf(T) :
                /\ (R >= 20 /\ 5 * CountOf(T, i) = R)
                       => i \notin Inner(dfYears) \cup Inner(dfCountries)
                /\ (R \in { 5, 10, 15 } /\ 5 * CountOf(T, i) = R)
                       => i \in Inner(dfYears) \cap Inner(dfCountries)
                /\ 4 * CountOf(T, i) = R => i \in Inner(dfYears) \cap Inner(dfCountries)

\* twenty rows, an indicator with values in four of them, and it is gone
C2_Witness ==
    /\ Returned
    /\ LET T == FileTriples
       IN  /\ Cardinality(PairsOf(T)) = 20
           /\ \E i \in IndicatorsOf(T) : CountOf(T, i) = 4 /\ i \notin Inner(dfYears)
           /\ \E i \in IndicatorsOf(T) : CountOf(T, i) = 20 /\ i \in Inner(dfYears)

-----------------------------------------------------------------------------
(* C3: after line 38 the indicator columns of ccDf are exactly the         *)
(* indicators whose number of values over the rows of the pivoted table is *)
(* at least floor(0.25 * rowCount), rowCount being the number of rows of   *)
(* the pivoted table, which no pruning has touched yet.                    *)
C3_ColumnPruning ==
    pc = "dropna_rows" =>
        LET T == FileTriples
            R == Cardinality(PairsOf(T))
        IN  /\ Len(ccDf.index) = R
            /\ IndicatorColumns(ccDf) = { i \in IndicatorsOf(T) : CountOf(T, i) >= (R \div 4) }

\* an indicator was dropped, another with a value missing was kept
C3_Witness ==
    /\ pc = "dropna_rows"
    /\ LET T == FileTriples
           R == Cardinality(PairsOf(T))
       IN  /\ \E i \in IndicatorsOf(T) : i \notin IndicatorColumns(ccDf)
           /\ \E i \in IndicatorsOf(T) : i \in IndicatorColumns(ccDf) /\ CountOf(T, i) < R

-----------------------------------------------------------------------------
(* C4: line 39 keeps exactly the rows of the column-pruned table whose     *)
(* number of non-missing cells over that table's columns is at least       *)
(* floor(0.25 * columnCount), columnCount being the number of columns of   *)
(* the column-pruned table.                                                *)
C4_RowPruning ==
    [][ pc = "dropna_rows" =>
          LET n == Len(ccDf.columns)
              Filled(r) == Cardinality({ c \in 1..n : ccDf.data[r][c] # NaN })
          IN  /\ ccDf'.columns = ccDf.columns
              /\ RowKeys(ccDf') = { << ccDf.data[r][1][1], ccDf.data[r][2][1] >> :
                                      r \in { r \in 1..Len(ccDf.index) : Filled(r) >= (n \div 4) } }
      ]_vars

\* the pivoted table had more columns than the column-pruned one, and a row
\* was kept that a quarter of the earlier column count would have dropped
C4_Witness ==
    /\ pc = "set_years"
    /\ LET T == FileTriples
           before == Cardinality(IndicatorsOf(T)) + 2
           after == Len(ccDf.columns)
       IN  /\ after < before
           /\ \E r \in 1..Len(ccDf.index) :
                  /\ RowCount(ccDf, r) < (before \div 4)
                  /\ RowCount(ccDf, r) >= (after \div 4)

-----------------------------------------------------------------------------
(* C5, as claimed: every row left by line 39 has values in at least 25% of *)
(* the indicator columns left by line 38, the two key columns counted      *)
(* neither as values nor as columns.                                       *)
C5_AsClaimed ==
    pc = "set_years" =>
        LET T == FileTriples
            K == IndicatorColumns(ccDf)
        IN  \A p \in RowKeys(ccDf) : 4 * FilledOf(T, p, K) >= Cardinality(K)

-----------------------------------------------------------------------------
(* C10: a row with m values in the k indicator columns left by line 38 is  *)
(* dropped by line 39 exactly when 2 + m < floor(0.25 * (k + 2)); with k   *)
(* at most 9 no row is dropped.                                            *)
C10_KeyColumnsCount ==
    pc = "set_years" =>
        LET T == FileTriples
            K == IndicatorColumns(ccDf)
            k == Cardinality(K)
        IN  /\ \A p \in PairsOf(T) :
                   p \notin RowKeys(ccDf) <=> 2 + FilledOf(T, p, K) < ((25 * (k + 2)) \div 100)
            /\ k <= 9 => RowKeys(ccDf) = PairsOf(T)

\* a row was dropped
C10_Witness ==
    /\ pc = "set_years"
    /\ RowKeys(ccDf) # PairsOf(FileTriples)

-----------------------------------------------------------------------------
(* C6, as claimed: dfYears has country names as row keys and (year,        *)
(* indicator) column keys; dfCountries has years as row keys and           *)
(* (indicator, country) column keys.                                       *)
C6_AsClaimed ==
    Returned =>
        LET T == FileTriples
            Cs == { t[1] : t \in T }
            Ys == { t[2] : t \in T }
            Is == { t[3] : t \in T }
        IN  /\ Range(dfYears.index) \subseteq Cs
            /\ \A col \in Range(dfYears.columns) : col[1] \in Ys /\ col[2] \in Is
            /\ Range(dfCountries.index) \subseteq Ys
            /\ \A col \in Range(dfCountries.columns) : col[1] \in Is /\ col[2] \in Cs

(* C6, amended: dfYears has country names as row keys and (year,           *)
(* indicator) column keys; dfCountries has years as row keys and (country, *)
(* indicator) column keys: the country is the outer key, the indicator the *)
(* inner one.  The row keys of each table are the outer keys of the other. *)
C6_Amended ==
    Returned =>
        LET T == FileTriples
            Cs == { t[1] : t \in T }
            Ys == { t[2] : t \in T }
            Is == { t[3] : t \in T }
        IN  /\ Range(dfYears.index) \subseteq Cs
            /\ \A col \in Range(dfYears.columns) : col[1] \in Ys /\ col[2] \in Is
            /\ Range(dfCountries.index) \subseteq Ys
            /\ \A col \in Range(dfCountries.columns) : col[1] \in Cs /\ col[2] \in Is
            /\ Outer(dfCountries) = Range(dfYears.index)
            /\ Outer(dfYears) = Range(dfCountries.index)
            /\ Inner(dfCountries) = Inner(dfYears)

\* two countries, two years and two indicators or more in the returned tables
C6_Witness ==
    /\ Returned
    /\ Cardinality(Outer(dfCountries)) >= 2
    /\ Cardinality(Outer(dfYears)) >= 2
    /\ Cardinality(Inner(dfCountries)) >= 2

-----------------------------------------------------------------------------
(* C7: in both returned tables the outer column labels, read left to       *)
(* right, never descend in str order.                                      *)
C7_OuterSorted ==
    Returned =>
        \A frame \in { dfYears, dfCountries } :
            \A k \in 1..(Len(frame.columns) - 1) :
                StrRank[frame.columns[k][1]] <= StrRank[frame.columns[k + 1][1]]

\* both tables have columns under two outer labels, of two inner labels each
C7_Witness ==
    /\ Returned
    /\ Cardinality(Outer(dfYears)) >= 2
    /\ Cardinality(Outer(dfCountries)) >= 2
    /\ Cardinality(Inner(dfYears)) >= 2

-----------------------------------------------------------------------------
(* C8: the three columns dropped at line 29 are no year label of the       *)
(* melted table, and no row key, outer column key or inner column key of   *)
(* either returned table.                                                  *)
C8_DroppedNeverAppear ==
    /\ pc = "pivot_table" =>
           \A r \in 1..Len(ccDf.index) : ccDf.data[r][3][1] \notin Range(DroppedColumns)
    /\ Returned =>
           \A frame \in { dfYears, dfCountries } :
               (Range(frame.index) \cup Outer(frame) \cup Inner(frame))
                   \cap Range(DroppedColumns) = {}

\* the file read had the three columns, and the tables returned are not empty
C8_Witness ==
    /\ Returned
    /\ Range(DroppedColumns) \subseteq Range(ReadCsv(file, SkipRows).columns)
    /\ dfYears.columns # << >>
    /\ dfCountries.columns # << >>

-----------------------------------------------------------------------------
(* The order of the steps, and what each leaves behind.                    *)

Steps ==
    << "read_csv", "drop", "melt", "pivot_table", "dropna_columns", "dropna_rows",
       "set_years", "set_countries", "return", "line68", "line70", "line75", "line79",
       "line84", "line89", "line94", "line98", "line104", "line110", "line115", "done" >>

\* the step a source line belongs to
StepOfLine(line) ==
    CASE line = 26 -> "read_csv"
      [] line = 29 -> "drop"
      [] line = 68 -> "line68"
      [] line = 70 -> "line70"
      [] line = 99 -> "line98"
      [] line = 105 -> "line104"
      [] line = 110 -> "line110"
      [] line = 115 -> "line115"

\* the file each step writes when it completes
Writes ==
    [ s \in Range(Steps) |->
        CASE s = "line79" -> { "eng.png" }
          [] s = "line84" -> { "ct.png" }
          [] s = "line89" -> { "co2.png" }
          [] s = "line98" -> { "table.csv" }
          [] s = "line104" -> { "al.png" }
          [] s = "line110" -> { "corrGreece.png" }
          [] s = "line115" -> { "corrDR.png" }
          [] OTHER -> {} ]

\* the steps before step s
Before(s) == { Steps[k] : k \in 1..(IndexOf(Steps, s) - 1) }

\* step s cannot complete: the file, the schema, or a label it looks up is missing
Fails(s) ==
    CASE s = "read_csv" -> ~file.exists
      [] s = "drop" -> ~ValidFile
      [] s = "line68" -> ~(Range(PlotYears) \subseteq Outer(dfYears))
      [] s = "line70" -> ~(Range(indicators) \subseteq Inner(dfYears))
      [] s = "line98" -> \/ ~(Range(countries) \subseteq Range(dfYears.index))
                         \/ ~(Range(AgColumns) \subseteq Range(dfYears.columns))
      [] s = "line104" -> \/ ~(Range(countries) \subseteq Range(dfYears.index))
                          \/ ~(Range(LineYears) \subseteq Outer(dfYears))
      [] s = "line110" -> ~({ "Greece" } \X Range(indicators) \subseteq Range(dfCountries.columns))
      [] s = "line115" ->
             ~({ "Dominican Republic" } \X Range(indicators) \subseteq Range(dfCountries.columns))
      [] OTHER -> FALSE

\* the step the script is at, or failed at
At == IF pc = "raised" THEN StepOfLine(exc.line) ELSE pc

-----------------------------------------------------------------------------
(* C9, as claimed: a step that fails is not run again and no step runs     *)
(* after it, and when a step has failed no output file has been written.   *)
C9_AsClaimed ==
    /\ \A s \in Before(At) : ~Fails(s)
    /\ pc = "raised" => /\ Fails(At)
                        /\ ~ENABLED ScriptNext
                        /\ written = {}

(* C9, amended: a step that fails is not run again and no step runs after  *)
(* it; the output files are at every moment exactly those of the steps     *)
(* completed so far, so when a step fails the files of the steps before it *)
(* stay written and no other file is.                                      *)
C9_Amended ==
    /\ \A s \in Before(At) : ~Fails(s)
    /\ written = UNION { Writes[s] : s \in Before(At) }
    /\ pc = "raised" => /\ Fails(At)
                        /\ ~ENABLED ScriptNext

\* a step failed after three files were written
C9_Witness ==
    /\ pc = "raised"
    /\ exc.line = 99
    /\ written = { "eng.png", "ct.png", "co2.png" }

=============================================================================
